---- MODULE Spec2Model ----
(***************************************************************************)
(* Model of the HomeKit-to-mesh bridge example:                            *)
(*   examples/Bridge/main/App.c     accessory state, persistence, the      *)
(*                                  characteristic callbacks, MeshSet*     *)
(*   examples/Bridge/main/light.c   light shadow, setters, light_task      *)
(*   examples/Bridge/main/switch.c  switch shadow, setter, switch_task     *)
(*                                                                         *)
(* The three files share no state (each keeps its own static globals and   *)
(* App.c calls neither light.c nor switch.c), so a behaviour follows one   *)
(* of them; the variable unit says which.                                  *)
(*                                                                         *)
(* Representation of C values:                                             *)
(*   bool      BOOLEAN, converted to 0/1 where it is stored in a byte      *)
(*   float     an integer counting halves (241 is 120.5), so that the      *)
(*             float -> integer conversions truncate                       *)
(*   int32_t   an integer                                                  *)
(*   uint32_t  a pair <<hi, lo>> of 16-bit limbs (TLC's integers are 32    *)
(*             bits wide and signed), arithmetic is modulo 2^32            *)
(*   uint8_t, uint16_t   an integer in 0..255, 0..65535                    *)
(***************************************************************************)
EXTENDS Integers, Sequences, FiniteSets, TLC

VARIABLES
    unit,               \* the file whose code this behaviour runs
    pc,                 \* App.c: "off" (before AppCreate), "running", "halted"
    state,              \* App.c: accessoryConfiguration.state
    kvs,                \* the record under (domain 0, key 0) of the key-value store
    saved,              \* history: the state handed to the last successful store Set
    last,               \* history: the last App.c call, its argument, result and steps
    tx,                 \* the packets handed to the mesh transport by the last step
    light_shadow,       \* light.c: light_shadow
    light_shadow_last,  \* light.c: light_shadow_last
    light_pc,           \* light.c: position of light_task
    light_loc,          \* light.c: locals of light_task / light_set_by_mode
    light_call,         \* light.c: position of the setter call in progress
    light_hist,         \* history of the light dispatcher (see LightHistZero)
    switch_shadow,      \* switch.c: switch_shadow
    switch_shadow_last, \* switch.c: switch_shadow_last
    switch_hist,        \* history of the switch dispatcher (see SwitchHistZero)
    encIn,              \* encoder sweep: the color temperature under test
    encOut              \* encoder sweep: the bytes computed from encIn

appVars    == <<pc, state, kvs, saved, last>>
lightVars  == <<light_shadow, light_shadow_last, light_pc, light_loc, light_call,
                 light_hist>>
switchVars == <<switch_shadow, switch_shadow_last, switch_hist>>
encVars    == <<encIn, encOut>>
vars       == <<unit, appVars, tx, lightVars, switchVars, encVars>>

----------------------------------------------------------------------------
(* Fixed-width arithmetic *)

W16 == 256 * 256

\* (uint32_t) t for a mathematical integer t: t mod 2^32 as two 16-bit limbs
U32(t) == <<(t \div W16) % W16, t % W16>>

\* a - b in uint32_t
U32Sub(a, b) ==
    LET lo     == a[2] - b[2]
        borrow == IF lo < 0 THEN 1 ELSE 0
    IN  <<(a[1] - b[1] - borrow) % W16, lo % W16>>

\* a * k in uint32_t, for a small k
U32Mul(a, k) ==
    LET lo == a[2] * k
    IN  <<(a[1] * k + lo \div W16) % W16, lo % W16>>

\* a / d in uint32_t (truncating), for a small d
U32Div(a, d) ==
    LET rest == (a[1] % d) * W16 + a[2]
    IN  <<a[1] \div d, rest \div d>>

\* a < n in uint32_t, for a small n
U32Less(a, n) == a[1] = 0 /\ a[2] < n

\* (uint8_t) of a uint32_t, of an integer, of a bool
U8OfU32(a) == a[2] % 256
U8(v) == v % 256
U8OfBool(b) == IF b THEN 1 ELSE 0

\* (uint16_t) and (uint8_t) of a float in range (the fraction is dropped)
U16OfFloat(f) == (f \div 2) % W16
U8OfFloat(f) == (f \div 2) % 256

----------------------------------------------------------------------------
(* Value domains *)

HueVals                == {0, 601}
SaturationVals         == {0, 151}
BrightnessVals         == {0, 100, 300}
WhiteBrightnessVals    == {0, 300}
ColorTemperatureVals   == {U32(0), U32(49), U32(50), U32(-50)}

ZeroState ==
    [lightBulbOn |-> FALSE, lightBulbHue |-> 0, lightBulbSaturation |-> 0,
     lightBulbBrightness |-> 0, whiteOn |-> FALSE, whiteBrightness |-> 0,
     whiteColorTemperature |-> U32(0)]

States ==
    [lightBulbOn : BOOLEAN, lightBulbHue : HueVals,
     lightBulbSaturation : SaturationVals, lightBulbBrightness : BrightnessVals,
     whiteOn : BOOLEAN, whiteBrightness : WhiteBrightnessVals,
     whiteColorTemperature : ColorTemperatureVals]

\* sizeof accessoryConfiguration.state: 7 fields of 4 bytes (bool padded)
StateSize == 7 * 4

----------------------------------------------------------------------------
(* The key-value store record: the raw bytes of the struct, field by field *)

Serialize(s) ==
    <<s.lightBulbOn, s.lightBulbHue, s.lightBulbSaturation, s.lightBulbBrightness,
      s.whiteOn, s.whiteBrightness, s.whiteColorTemperature>>

\* faulty variant: the two brightness fields are read from each other's place
Deserialize_Swapped(b) ==
    [lightBulbOn |-> b[1], lightBulbHue |-> b[2], lightBulbSaturation |-> b[3],
     lightBulbBrightness |-> b[6], whiteOn |-> b[5], whiteBrightness |-> b[4],
     whiteColorTemperature |-> b[7]]

Deserialize(b) ==
    [lightBulbOn |-> b[1], lightBulbHue |-> b[2], lightBulbSaturation |-> b[3],
     lightBulbBrightness |-> b[4], whiteOn |-> b[5], whiteBrightness |-> b[6],
     whiteColorTemperature |-> b[7]]

NoRecord    == [found |-> FALSE, numBytes |-> 0, bytes |-> <<>>]
\* a record of another size (an earlier firmware's four-field struct)
ShortRecord == [found |-> TRUE, numBytes |-> 16, bytes |-> <<TRUE, 241, 151, 100>>]
Record(s)   == [found |-> TRUE, numBytes |-> StateSize, bytes |-> Serialize(s)]

----------------------------------------------------------------------------
(* App.c: execution of one call.  A context c carries the memory and store *)
(* the call works on and what it has done so far, in order; once the       *)
(* process has halted (HAPFatalError) nothing more is executed.            *)

Ctx ==
    [state |-> state, kvs |-> kvs, saved |-> saved,
     tx |-> <<>>, raised |-> <<>>, steps |-> <<>>, fatal |-> FALSE]

Did(c, step) == [c EXCEPT !.steps = Append(@, step)]

HAPFatalError(c) == [Did(c, "fatal") EXCEPT !.fatal = TRUE]

HAPRawBufferZero(c) ==
    IF c.fatal THEN c ELSE [Did(c, "zero") EXCEPT !.state = ZeroState]

\* a successful Get: the record's bytes, when found, are copied over the start
\* of the state buffer
HAPPlatformKeyValueStoreGet(c) ==
    LET old == Serialize(c.state)
        buf == [i \in 1..7 |-> IF i <= Len(c.kvs.bytes) THEN c.kvs.bytes[i] ELSE old[i]]
    IN  [Did(c, "get") EXCEPT !.state = Deserialize(buf)]

\* faulty variant: a record of the wrong size is kept as read
LoadAccessoryState_NoZero(c, err) ==
    IF c.fatal THEN c
    ELSE IF err THEN HAPFatalError(Did(c, "get_err"))
    ELSE HAPPlatformKeyValueStoreGet(c)

LoadAccessoryState(c, err) ==
    IF c.fatal THEN c
    ELSE IF err THEN HAPFatalError(Did(c, "get_err"))
    ELSE LET got == HAPPlatformKeyValueStoreGet(c)
         IN  IF ~c.kvs.found \/ c.kvs.numBytes # StateSize
             THEN HAPRawBufferZero(got)
             ELSE got

\* faulty variant: a store error is not fatal
SaveAccessoryState_Continue(c, err) ==
    IF c.fatal THEN c
    ELSE IF err THEN Did(c, "set_err")
    ELSE [Did(c, "set") EXCEPT !.kvs = Record(c.state),
                               !.saved = [valid |-> TRUE, s |-> c.state]]

SaveAccessoryState(c, err) ==
    IF c.fatal THEN c
    ELSE IF err THEN HAPFatalError(Did(c, "set_err"))
    ELSE [Did(c, "set") EXCEPT !.kvs = Record(c.state),
                               !.saved = [valid |-> TRUE, s |-> c.state]]

mble_mesh_model_set(c, data) ==
    IF c.fatal THEN c ELSE [Did(c, "mesh") EXCEPT !.tx = Append(@, data)]

HAPAccessoryServerRaiseEvent(c, characteristic) ==
    IF c.fatal THEN c ELSE [Did(c, "raise") EXCEPT !.raised = Append(@, characteristic)]

Assign(c, field, value) ==
    IF c.fatal THEN c ELSE [Did(c, "write") EXCEPT !.state[field] = value]

MeshSetOnOff(c, onff) ==
    mble_mesh_model_set(c, <<0, 0, 1, U8OfBool(onff)>>)

MeshSetHSB(c, hue, saturation, brightness) ==
    mble_mesh_model_set(c,
        <<0, 35, 1, U16OfFloat(hue) % 256, (U16OfFloat(hue) \div 256) % 256,
          U8OfFloat(saturation), U8(brightness)>>)

\* faulty variant: the parameter is as wide as the caller's value (a 16-bit brightness)
MeshSetBrightness_U16(c, brightness) ==
    mble_mesh_model_set(c, <<0, 33, 1, brightness % 256, (brightness \div 256) % 256>>)

\* the parameter is a uint8_t: the caller's int32_t is converted on the call
MeshSetBrightness(c, brightness) ==
    LET b == U8(brightness)
    IN  mble_mesh_model_set(c, <<0, 33, 1, b % 256, (b \div 256) % 256>>)

\* faulty variant: the arithmetic is done in int32_t (division truncating toward zero)
ColorTemperaturePercent_Signed(colorTemperature) ==
    LET t == IF colorTemperature[1] >= 32768
             THEN (colorTemperature[1] - W16) * W16 + colorTemperature[2]
             ELSE colorTemperature[1] * W16 + colorTemperature[2]
        p == (300 - t) * 100
        q == IF p >= 0 THEN p \div 350 ELSE 0 - ((0 - p) \div 350)
    IN  q % 256

ColorTemperaturePercent(colorTemperature) ==
    U8OfU32(U32Div(U32Mul(U32Sub(U32(300), colorTemperature), 100), 350))

MeshSetColorTemperature(c, colorTemperature) ==
    mble_mesh_model_set(c, <<0, 241, 1, ColorTemperaturePercent(colorTemperature)>>)

\* the call is over: what it returned (nothing when the process halted)
Return(c, op, arg, old, out) ==
    /\ state' = c.state
    /\ kvs' = c.kvs
    /\ saved' = c.saved
    /\ tx' = c.tx
    /\ pc' = IF c.fatal THEN "halted" ELSE "running"
    /\ last' = [op |-> op, arg |-> arg, old |-> old,
                out |-> IF c.fatal THEN "none" ELSE out,
                ret |-> IF c.fatal THEN "none" ELSE "kHAPError_None",
                steps |-> c.steps, raised |-> c.raised]
    /\ UNCHANGED <<unit, lightVars, switchVars, encVars>>

----------------------------------------------------------------------------
(* App.c: the process and its callbacks *)

\* static storage is zero when the process starts; the store keeps its record
Reboot ==
    /\ unit = "App"
    /\ pc \in {"running", "halted"}
    /\ pc' = "off"
    /\ state' = ZeroState
    /\ tx' = <<>>
    /\ last' = [op |-> "Reboot", arg |-> "none", old |-> "none", out |-> "none",
                ret |-> "none", steps |-> <<>>, raised |-> <<>>]
    /\ UNCHANGED <<unit, kvs, saved, lightVars, switchVars, encVars>>

AppCreate(getErr) ==
    /\ unit = "App"
    /\ pc = "off"
    /\ LET c1 == HAPRawBufferZero(Ctx)
           c2 == LoadAccessoryState(c1, getErr)
       IN  Return(c2, "AppCreate", "none", "none", "none")

HandleLightBulbOnRead ==
    /\ unit = "App"
    /\ pc = "running"
    /\ Return(Ctx, "HandleLightBulbOnRead", "none", "none", state.lightBulbOn)

\* faulty variant: the comparison with the current value is missing
HandleLightBulbOnWrite_Always(value, setErr) ==
    /\ unit = "App"
    /\ pc = "running"
    /\ LET c1 == Assign(Ctx, "lightBulbOn", value)
           c2 == MeshSetOnOff(c1, c1.state.lightBulbOn)
           c3 == SaveAccessoryState(c2, setErr)
           c4 == HAPAccessoryServerRaiseEvent(c3, "lightBulbOn")
       IN  Return(c4, "HandleLightBulbOnWrite", value, state.lightBulbOn, "none")

HandleLightBulbOnWrite(value, setErr) ==
    /\ unit = "App"
    /\ pc = "running"
    /\ IF state.lightBulbOn # value
       THEN LET c1 == Assign(Ctx, "lightBulbOn", value)
                c2 == MeshSetOnOff(c1, c1.state.lightBulbOn)
                c3 == SaveAccessoryState(c2, setErr)
                c4 == HAPAccessoryServerRaiseEvent(c3, "lightBulbOn")
            IN  Return(c4, "HandleLightBulbOnWrite", value, state.lightBulbOn, "none")
       ELSE Return(Ctx, "HandleLightBulbOnWrite", value, state.lightBulbOn, "none")

HandleLightBulbHueRead ==
    /\ unit = "App"
    /\ pc = "running"
    /\ Return(Ctx, "HandleLightBulbHueRead", "none", "none", state.lightBulbHue)

HandleLightBulbHueWrite(value, setErr) ==
    /\ unit = "App"
    /\ pc = "running"
    /\ IF state.lightBulbHue # value
       THEN LET c1 == Assign(Ctx, "lightBulbHue", value)
                c2 == MeshSetHSB(c1, c1.state.lightBulbHue, c1.state.lightBulbSaturation,
                                 c1.state.lightBulbBrightness)
                c3 == SaveAccessoryState(c2, setErr)
                c4 == HAPAccessoryServerRaiseEvent(c3, "lightBulbHue")
            IN  Return(c4, "HandleLightBulbHueWrite", value, state.lightBulbHue, "none")
       ELSE Return(Ctx, "HandleLightBulbHueWrite", value, state.lightBulbHue, "none")

HandleLightBulbSaturationRead ==
    /\ unit = "App"
    /\ pc = "running"
    /\ Return(Ctx, "HandleLightBulbSaturationRead", "none", "none",
              state.lightBulbSaturation)

HandleLightBulbSaturationWrite(value, setErr) ==
    /\ unit = "App"
    /\ pc = "running"
    /\ IF state.lightBulbSaturation # value
       THEN LET c1 == Assign(Ctx, "lightBulbSaturation", value)
                c2 == MeshSetHSB(c1, c1.state.lightBulbHue, c1.state.lightBulbSaturation,
                                 c1.state.lightBulbBrightness)
                c3 == SaveAccessoryState(c2, setErr)
                c4 == HAPAccessoryServerRaiseEvent(c3, "lightBulbSaturation")
            IN  Return(c4, "HandleLightBulbSaturationWrite", value,
                       state.lightBulbSaturation, "none")
       ELSE Return(Ctx, "HandleLightBulbSaturationWrite", value,
                   state.lightBulbSaturation, "none")

HandleLightBulbBrightnessRead ==
    /\ unit = "App"
    /\ pc = "running"
    /\ Return(Ctx, "HandleLightBulbBrightnessRead", "none", "none",
              state.lightBulbBrightness)

\* faulty variant: the new brightness is sent and notified, and not persisted
HandleLightBulbBrightnessWrite_NoSave(value, setErr) ==
    /\ unit = "App"
    /\ pc = "running"
    /\ IF state.lightBulbBrightness # value
       THEN LET c1 == Assign(Ctx, "lightBulbBrightness", value)
                c2 == MeshSetHSB(c1, c1.state.lightBulbHue, c1.state.lightBulbSaturation,
                                 c1.state.lightBulbBrightness)
                c4 == HAPAccessoryServerRaiseEvent(c2, "lightBulbBrightness")
            IN  Return(c4, "HandleLightBulbBrightnessWrite", value,
                       state.lightBulbBrightness, "none")
       ELSE Return(Ctx, "HandleLightBulbBrightnessWrite", value,
                   state.lightBulbBrightness, "none")

HandleLightBulbBrightnessWrite(value, setErr) ==
    /\ unit = "App"
    /\ pc = "running"
    /\ IF state.lightBulbBrightness # value
       THEN LET c1 == Assign(Ctx, "lightBulbBrightness", value)
                c2 == MeshSetHSB(c1, c1.state.lightBulbHue, c1.state.lightBulbSaturation,
                                 c1.state.lightBulbBrightness)
                c3 == SaveAccessoryState(c2, setErr)
                c4 == HAPAccessoryServerRaiseEvent(c3, "lightBulbBrightness")
            IN  Return(c4, "HandleLightBulbBrightnessWrite", value,
                       state.lightBulbBrightness, "none")
       ELSE Return(Ctx, "HandleLightBulbBrightnessWrite", value,
                   state.lightBulbBrightness, "none")

HandleWhiteOnRead ==
    /\ unit = "App"
    /\ pc = "running"
    /\ Return(Ctx, "HandleWhiteOnRead", "none", "none", state.whiteOn)

\* faulty variant: the state is saved before the mesh packet is sent
HandleWhiteOnWrite_SaveFirst(value, setErr) ==
    /\ unit = "App"
    /\ pc = "running"
    /\ IF state.whiteOn # value
       THEN LET c1 == Assign(Ctx, "whiteOn", value)
                c2 == SaveAccessoryState(c1, setErr)
                c3 == MeshSetOnOff(c2, c2.state.whiteOn)
                c4 == HAPAccessoryServerRaiseEvent(c3, "whiteOn")
            IN  Return(c4, "HandleWhiteOnWrite", value, state.whiteOn, "none")
       ELSE Return(Ctx, "HandleWhiteOnWrite", value, state.whiteOn, "none")

HandleWhiteOnWrite(value, setErr) ==
    /\ unit = "App"
    /\ pc = "running"
    /\ IF state.whiteOn # value
       THEN LET c1 == Assign(Ctx, "whiteOn", value)
                c2 == MeshSetOnOff(c1, c1.state.whiteOn)
                c3 == SaveAccessoryState(c2, setErr)
                c4 == HAPAccessoryServerRaiseEvent(c3, "whiteOn")
            IN  Return(c4, "HandleWhiteOnWrite", value, state.whiteOn, "none")
       ELSE Return(Ctx, "HandleWhiteOnWrite", value, state.whiteOn, "none")

\* faulty variant: the other brightness field is returned
HandleWhiteBrightnessRead_WrongField ==
    /\ unit = "App"
    /\ pc = "running"
    /\ Return(Ctx, "HandleWhiteBrightnessRead", "none", "none", state.lightBulbBrightness)

HandleWhiteBrightnessRead ==
    /\ unit = "App"
    /\ pc = "running"
    /\ Return(Ctx, "HandleWhiteBrightnessRead", "none", "none", state.whiteBrightness)

\* faulty variant: the change is not notified
HandleWhiteBrightnessWrite_NoRaise(value, setErr) ==
    /\ unit = "App"
    /\ pc = "running"
    /\ IF state.whiteBrightness # value
       THEN LET c1 == Assign(Ctx, "whiteBrightness", value)
                c2 == MeshSetBrightness(c1, value)
                c3 == SaveAccessoryState(c2, setErr)
            IN  Return(c3, "HandleWhiteBrightnessWrite", value, state.whiteBrightness,
                       "none")
       ELSE Return(Ctx, "HandleWhiteBrightnessWrite", value, state.whiteBrightness,
                   "none")

HandleWhiteBrightnessWrite(value, setErr) ==
    /\ unit = "App"
    /\ pc = "running"
    /\ IF state.whiteBrightness # value
       THEN LET c1 == Assign(Ctx, "whiteBrightness", value)
                c2 == MeshSetBrightness(c1, value)
                c3 == SaveAccessoryState(c2, setErr)
                c4 == HAPAccessoryServerRaiseEvent(c3, "whiteBrightness")
            IN  Return(c4, "HandleWhiteBrightnessWrite", value, state.whiteBrightness,
                       "none")
       ELSE Return(Ctx, "HandleWhiteBrightnessWrite", value, state.whiteBrightness,
                   "none")

\* faulty variant: the corrected value is not persisted
HandleWhiteColorTemperatureRead_NoSave(setErr) ==
    /\ unit = "App"
    /\ pc = "running"
    /\ LET c2 == IF U32Less(state.whiteColorTemperature, 50)
                 THEN Assign(Ctx, "whiteColorTemperature", U32(50))
                 ELSE Ctx
       IN  Return(c2, "HandleWhiteColorTemperatureRead", "none",
                  state.whiteColorTemperature, c2.state.whiteColorTemperature)

HandleWhiteColorTemperatureRead(setErr) ==
    /\ unit = "App"
    /\ pc = "running"
    /\ LET c2 == IF U32Less(state.whiteColorTemperature, 50)
                 THEN SaveAccessoryState(Assign(Ctx, "whiteColorTemperature", U32(50)),
                                         setErr)
                 ELSE Ctx
       IN  Return(c2, "HandleWhiteColorTemperatureRead", "none",
                  state.whiteColorTemperature, c2.state.whiteColorTemperature)

HandleWhiteColorTemperatureWrite(value, setErr) ==
    /\ unit = "App"
    /\ pc = "running"
    /\ IF state.whiteColorTemperature # value
       THEN LET c1 == Assign(Ctx, "whiteColorTemperature", value)
                c2 == MeshSetColorTemperature(c1, value)
                c3 == SaveAccessoryState(c2, setErr)
                c4 == HAPAccessoryServerRaiseEvent(c3, "whiteColorTemperature")
            IN  Return(c4, "HandleWhiteColorTemperatureWrite", value,
                       state.whiteColorTemperature, "none")
       ELSE Return(Ctx, "HandleWhiteColorTemperatureWrite", value,
                   state.whiteColorTemperature, "none")

NextApp ==
    \/ Reboot
    \/ \E getErr \in BOOLEAN : AppCreate(getErr)
    \/ HandleLightBulbOnRead
    \/ \E value \in BOOLEAN, setErr \in BOOLEAN : HandleLightBulbOnWrite(value, setErr)
    \/ HandleLightBulbHueRead
    \/ \E value \in HueVals, setErr \in BOOLEAN : HandleLightBulbHueWrite(value, setErr)
    \/ HandleLightBulbSaturationRead
    \/ \E value \in SaturationVals, setErr \in BOOLEAN :
           HandleLightBulbSaturationWrite(value, setErr)
    \/ HandleLightBulbBrightnessRead
    \/ \E value \in BrightnessVals, setErr \in BOOLEAN :
           HandleLightBulbBrightnessWrite(value, setErr)
    \/ HandleWhiteOnRead
    \/ \E value \in BOOLEAN, setErr \in BOOLEAN : HandleWhiteOnWrite(value, setErr)
    \/ HandleWhiteBrightnessRead
    \/ \E value \in WhiteBrightnessVals, setErr \in BOOLEAN :
           HandleWhiteBrightnessWrite(value, setErr)
    \/ \E setErr \in BOOLEAN : HandleWhiteColorTemperatureRead(setErr)
    \/ \E value \in ColorTemperatureVals, setErr \in BOOLEAN :
           HandleWhiteColorTemperatureWrite(value, setErr)

----------------------------------------------------------------------------
(* light.c *)

\* The light behaviours come in families, by the setters that are called:
\* "light_color" calls those of hue, saturation and value, "light_white"
\* those of hue, brightness and temperature.  Both switch the mode and the on
\* flag freely.  "light_hsv" calls light_color_set_on and the setters of hue,
\* saturation and value, and keeps the history of the HSV triples only.
LightFamilies == {"light_color", "light_white"}
LightUnits    == LightFamilies \cup {"light_hsv"}

LightHueVals         == {0, 601}
LightSaturationVals  == IF unit \in {"light_color", "light_hsv"} THEN {0, 151} ELSE {}
LightValueVals       == IF unit \in {"light_color", "light_hsv"} THEN {0, 100} ELSE {}
LightBrightnessVals  == IF unit = "light_white" THEN {0, 10, 20} ELSE {}
LightTemperatureVals == IF unit = "light_white" THEN {U32(300), U32(-50)} ELSE {}

LightShadowZero ==
    [on |-> FALSE, hue |-> 0, saturation |-> 0, value |-> 0, brightness |-> 0,
     temperature |-> 0, mode |-> "LIGHT_MODE_WHITE"]

LightLocZero ==
    [on |-> FALSE, mode |-> "LIGHT_MODE_WHITE", mode_changed |-> FALSE,
     brightness |-> 0, temperature |-> 0, hue |-> 0, saturation |-> 0]

light_set_on_internal(on) == <<0, 0, 1, U8OfBool(on)>>

light_set_hsv_internal(hue, saturation, value) ==
    <<0, 35, 1, hue % 256, (hue \div 256) % 256, saturation, value>>

\* faulty variant: the 16-bit brightness is written high byte first
light_set_brightness_internal_BE(brightness) == <<0, 33, 1, 0, brightness>>

light_set_brightness_internal(brightness) == <<0, 33, 1, brightness, 0>>

light_set_temperature_internal(temperature) == <<0, 241, 1, temperature>>

\* The mesh node as the packets leave it: the payload of the last packet of
\* each kind, zero before the first
WireZero ==
    [on |-> 0, brightness |-> 0, temperature |-> 0, hue |-> 0, saturation |-> 0,
     value |-> 0]

Deliver(w, p) ==
    CASE p[2] = 0   -> [w EXCEPT !.on = p[4]]
      [] p[2] = 33  -> [w EXCEPT !.brightness = p[4] + 256 * p[5]]
      [] p[2] = 241 -> [w EXCEPT !.temperature = p[4]]
      [] p[2] = 35  -> [w EXCEPT !.hue = p[4] + 256 * p[5], !.saturation = p[6],
                                 !.value = p[7]]
      [] OTHER      -> w

RECURSIVE DeliverAll(_, _)
DeliverAll(w, q) == IF q = <<>> THEN w ELSE DeliverAll(Deliver(w, Head(q)), Tail(q))

\* Counting the stores to a field of a shadow between two samples of it
More(burst) == IF burst = "none" THEN "one" ELSE "several"

\* The setter calls that changed an on flag less the on/off packets sent; the
\* count stops at MaxOwed above and at -1 below
MaxOwed == 2

OnOffPackets(sent) == Cardinality({i \in DOMAIN sent : sent[i][2] = 0})

Owed(owed, changed, sent) ==
    LET up   == IF changed /\ owed < MaxOwed THEN owed + 1 ELSE owed
        down == up - OnOffPackets(sent)
    IN  IF down < 0 THEN 0 - 1 ELSE down

\* What an iteration of light_task has read from light_shadow, seen from its
\* last step: on; and past light_shadow.on, the mode and the fields of that mode
LightSample ==
    IF light_pc = "tick"
    THEN [LightShadowZero EXCEPT !.on = light_shadow.on]
    ELSE [on          |-> light_loc.on,
          mode        |-> light_loc.mode,
          brightness  |-> light_loc.brightness,
          temperature |-> IF light_pc = "temperature" THEN light_shadow.temperature
                          ELSE 0,
          hue         |-> light_loc.hue,
          saturation  |-> light_loc.saturation,
          value       |-> IF light_pc = "value" THEN light_shadow.value ELSE 0]

\* The desired states of the dispatcher-diffing example: off, then on in WHITE
\* mode with brightness 10, then with brightness 20
LightScript ==
    << LightShadowZero,
       [LightShadowZero EXCEPT !.on = TRUE, !.brightness = 10],
       [LightShadowZero EXCEPT !.on = TRUE, !.brightness = 20] >>

\* an iteration that sampled s has sampled the desired state d
LightFollows(s, d) == IF d.on THEN s = d ELSE ~s.on

LightScenZero == [alive |-> TRUE, stage |-> 0, again |-> FALSE, log |-> <<>>]
LightScenDead == [alive |-> FALSE, stage |-> 0, again |-> FALSE, log |-> <<>>]

\* The example after an iteration that sampled s and sent the packets sent:
\* stage counts the states of LightScript sampled so far, each by one iteration
\* or more, again says that the last iteration sampled the state of the one
\* before it; log holds the packets sent so far (its first Len(LightScript) + 1).
\* An iteration that samples anything else ends the example.
LightScenNext(scen, s, sent) ==
    LET all == scen.log \o sent
        log == IF Len(all) > Len(LightScript) + 1
               THEN SubSeq(all, 1, Len(LightScript) + 1) ELSE all
    IN  IF ~scen.alive THEN scen
        ELSE IF scen.stage >= 1 /\ LightFollows(s, LightScript[scen.stage])
        THEN [scen EXCEPT !.again = TRUE, !.log = log]
        ELSE IF scen.stage < Len(LightScript)
                /\ LightFollows(s, LightScript[scen.stage + 1])
        THEN [scen EXCEPT !.stage = @ + 1, !.again = FALSE, !.log = log]
        ELSE LightScenDead

\* History of the light dispatcher:
\*   prev   light_shadow_last as the iteration in progress found it
\*   scen   the dispatcher-diffing example, see LightScenNext
\*   wire   the payloads last transmitted, see Deliver
\*   burst  the stores to light_shadow.value since the last sample of it
\*   owed   the calls that changed light_shadow.on less the on/off packets
\*   turning  a call light_color_set_on(true) that found the shadow off and
\*          in WHITE mode has stored on and not yet mode
\*   torn   "on" when the iteration in progress sampled on from such a call,
\*          "mode" when it then sampled the mode before the call stored it
\* and in the "light_hsv" family, instead of these:
\*   held   the triples <<hue, saturation, value>> light_shadow has held so far
\*   mixed  a setter stored to hue, saturation or value after the iteration in
\*          progress, or the last one, sampled the hue and before it sampled
\*          the value
LightHistZero ==
    [prev |-> LightShadowZero, scen |-> LightScenZero, wire |-> WireZero,
     burst |-> "none", owed |-> 0, turning |-> FALSE, torn |-> "no",
     held |-> {<<0, 0, 0>>}, mixed |-> FALSE]

LightTriple(s) == <<s.hue, s.saturation, s.value>>

\* the history when an iteration begins, and when it ends having sent the
\* packets sent
LightTickBegins ==
    IF unit = "light_hsv" THEN [light_hist EXCEPT !.mixed = FALSE]
    ELSE [light_hist EXCEPT !.prev = light_shadow_last,
                            !.torn = IF light_hist.turning THEN "on" ELSE "no"]

\* the history after the sample of light_shadow.mode
LightModeSampled ==
    IF unit = "light_hsv" THEN light_hist
    ELSE [light_hist EXCEPT !.torn = IF @ = "on" THEN "mode" ELSE @]

\* the history after a setter's store of v to field, the setter going on at next
LightStored(field, v, next) ==
    IF unit = "light_hsv"
    THEN [light_hist EXCEPT
             !.held = @ \cup {LightTriple([light_shadow EXCEPT ![field] = v])},
             !.mixed = \/ @
                       \/ /\ field \in {"hue", "saturation", "value"}
                          /\ light_pc \in {"saturation", "value"}]
    ELSE IF field = "value" THEN [light_hist EXCEPT !.burst = More(@)]
    ELSE IF field = "on"
    THEN [light_hist EXCEPT
             !.owed = Owed(@, v # light_shadow.on, <<>>),
             !.turning = /\ next = "light_color_set_on" /\ v /\ ~light_shadow.on
                         /\ light_shadow.mode = "LIGHT_MODE_WHITE"]
    ELSE IF field = "mode"
    THEN [light_hist EXCEPT !.turning = FALSE,
                            !.torn = IF @ = "on" THEN "no" ELSE @]
    ELSE light_hist

LightTickEnds(sent) ==
    IF unit = "light_hsv"
    THEN [light_hist EXCEPT !.mixed = IF light_pc = "tick" THEN FALSE ELSE @]
    ELSE [light_hist EXCEPT !.prev = LightShadowZero,
                            !.torn = "no",
                            !.burst = IF light_pc = "value" THEN "none" ELSE @,
                            !.owed = Owed(@, FALSE, sent),
                            !.scen = LightScenNext(@, LightSample, sent),
                            !.wire = DeliverAll(@, sent)]

\* faulty variant: the brightness is compared and sent with on false too
LightTaskSampleOn_DiffWhileOff ==
    /\ unit \in LightUnits
    /\ light_pc = "tick"
    /\ LET on == light_shadow.on
           brightness == light_shadow.brightness
           sendB == brightness # light_shadow_last.brightness
           l1 == IF sendB THEN [light_shadow_last EXCEPT !.brightness = brightness]
                 ELSE light_shadow_last
           sent == IF sendB THEN <<light_set_brightness_internal(brightness)>> ELSE <<>>
       IN  IF on
           THEN /\ light_loc' = [LightLocZero EXCEPT !.on = on]
                /\ light_pc' = "mode"
                /\ tx' = <<>>
                /\ light_hist' = LightTickBegins
                /\ UNCHANGED light_shadow_last
           ELSE /\ IF on # light_shadow_last.on
                   THEN /\ tx' = Append(sent, light_set_on_internal(on))
                        /\ light_shadow_last' = [l1 EXCEPT !.on = on]
                   ELSE /\ tx' = sent
                        /\ light_shadow_last' = l1
                /\ light_hist' = LightTickEnds(tx')
                /\ UNCHANGED <<light_loc, light_pc>>
    /\ UNCHANGED <<unit, appVars, light_shadow, light_call, switchVars, encVars>>

\* light_task, from the delay to the sample of light_shadow.on; with on false
\* the iteration ends here
LightTaskSampleOn ==
    /\ unit \in LightUnits
    /\ light_pc = "tick"
    /\ LET on == light_shadow.on
       IN  IF on
           THEN /\ light_loc' = [LightLocZero EXCEPT !.on = on]
                /\ light_pc' = "mode"
                /\ tx' = <<>>
                /\ light_hist' = LightTickBegins
                /\ UNCHANGED light_shadow_last
           ELSE /\ IF on # light_shadow_last.on
                   THEN /\ tx' = <<light_set_on_internal(on)>>
                        /\ light_shadow_last' = [light_shadow_last EXCEPT !.on = on]
                   ELSE /\ tx' = <<>>
                        /\ UNCHANGED light_shadow_last
                /\ light_hist' = LightTickEnds(tx')
                /\ UNCHANGED <<light_loc, light_pc>>
    /\ UNCHANGED <<unit, appVars, light_shadow, light_call, switchVars, encVars>>

\* faulty variant: the on/off packet is sent and light_shadow_last.on is kept
LightTaskFinish_KeepOn(sent, shadow_last) ==
    /\ tx' = IF light_loc.on # shadow_last.on
             THEN Append(sent, light_set_on_internal(light_loc.on)) ELSE sent
    /\ light_shadow_last' = shadow_last
    /\ light_loc' = LightLocZero
    /\ light_pc' = "tick"
    /\ light_hist' = LightTickEnds(tx')

\* faulty variant: the on/off packet is sent before light_set_by_mode is called
LightTaskFinish_OnFirst(sent, shadow_last) ==
    /\ IF light_loc.on # shadow_last.on
       THEN /\ tx' = <<light_set_on_internal(light_loc.on)>> \o sent
            /\ light_shadow_last' = [shadow_last EXCEPT !.on = light_loc.on]
       ELSE /\ tx' = sent
            /\ light_shadow_last' = shadow_last
    /\ light_loc' = LightLocZero
    /\ light_pc' = "tick"
    /\ light_hist' = LightTickEnds(tx')

\* the end of an iteration of light_task after light_set_by_mode returned:
\* the packets sent by light_set_by_mode, then the on/off packet when on changed
LightTaskFinish(sent, shadow_last) ==
    /\ IF light_loc.on # shadow_last.on
       THEN /\ tx' = Append(sent, light_set_on_internal(light_loc.on))
            /\ light_shadow_last' = [shadow_last EXCEPT !.on = light_loc.on]
       ELSE /\ tx' = sent
            /\ light_shadow_last' = shadow_last
    /\ light_loc' = LightLocZero
    /\ light_pc' = "tick"
    /\ light_hist' = LightTickEnds(tx')

\* faulty variant: the new mode is stored and mode_changed stays false
LightSampleMode_NoFlag ==
    /\ unit \in LightUnits
    /\ light_pc = "mode"
    /\ LET mode == light_shadow.mode
       IN  /\ light_loc' = [light_loc EXCEPT !.mode = mode]
           /\ light_shadow_last' = [light_shadow_last EXCEPT !.mode = mode]
           /\ light_pc' = IF mode = "LIGHT_MODE_WHITE" THEN "brightness" ELSE "hue"
    /\ tx' = <<>>
    /\ light_hist' = LightModeSampled
    /\ UNCHANGED <<unit, appVars, light_shadow, light_call, switchVars, encVars>>

\* light_set_by_mode: the sample of light_shadow.mode
LightSampleMode ==
    /\ unit \in LightUnits
    /\ light_pc = "mode"
    /\ LET mode == light_shadow.mode
           mode_changed == mode # light_shadow_last.mode
       IN  /\ light_loc' = [light_loc EXCEPT !.mode = mode, !.mode_changed = mode_changed]
           /\ light_shadow_last' = [light_shadow_last EXCEPT !.mode = mode]
           /\ light_pc' = IF mode = "LIGHT_MODE_WHITE" THEN "brightness" ELSE "hue"
    /\ tx' = <<>>
    /\ light_hist' = LightModeSampled
    /\ UNCHANGED <<unit, appVars, light_shadow, light_call, switchVars, encVars>>

\* faulty variant: a brightness below the last-sent one is not taken
LightSampleBrightness_Max ==
    /\ unit \in LightUnits
    /\ light_pc = "brightness"
    /\ light_loc' = [light_loc EXCEPT
                        !.brightness = IF light_shadow.brightness < light_shadow_last.brightness
                                       THEN light_shadow_last.brightness
                                       ELSE light_shadow.brightness]
    /\ light_pc' = "temperature"
    /\ tx' = <<>>
    /\ UNCHANGED light_hist
    /\ UNCHANGED <<unit, appVars, light_shadow, light_shadow_last, light_call,
                   switchVars, encVars>>

LightSampleBrightness ==
    /\ unit \in LightUnits
    /\ light_pc = "brightness"
    /\ light_loc' = [light_loc EXCEPT !.brightness = light_shadow.brightness]
    /\ light_pc' = "temperature"
    /\ tx' = <<>>
    /\ UNCHANGED light_hist
    /\ UNCHANGED <<unit, appVars, light_shadow, light_shadow_last, light_call,
                   switchVars, encVars>>

\* faulty variant: the brightness is sent without comparing it
LightSampleTemperature_NoDiff ==
    /\ unit \in LightUnits
    /\ light_pc = "temperature"
    /\ LET brightness  == light_loc.brightness
           temperature == light_shadow.temperature
           sendT == light_loc.mode_changed \/ temperature # light_shadow_last.temperature
           l1 == [light_shadow_last EXCEPT !.brightness = brightness]
           l2 == IF sendT THEN [l1 EXCEPT !.temperature = temperature] ELSE l1
           sent == <<light_set_brightness_internal(brightness)>>
                   \o (IF sendT THEN <<light_set_temperature_internal(temperature)>>
                       ELSE <<>>)
       IN  LightTaskFinish(sent, l2)
    /\ UNCHANGED <<unit, appVars, light_shadow, light_call, switchVars, encVars>>

\* the sample of light_shadow.temperature and the rest of the WHITE case
LightSampleTemperature ==
    /\ unit \in LightUnits
    /\ light_pc = "temperature"
    /\ LET brightness  == light_loc.brightness
           temperature == light_shadow.temperature
           sendB == light_loc.mode_changed \/ brightness # light_shadow_last.brightness
           sendT == light_loc.mode_changed \/ temperature # light_shadow_last.temperature
           l1 == IF sendB THEN [light_shadow_last EXCEPT !.brightness = brightness]
                 ELSE light_shadow_last
           l2 == IF sendT THEN [l1 EXCEPT !.temperature = temperature] ELSE l1
           sent == (IF sendB THEN <<light_set_brightness_internal(brightness)>> ELSE <<>>)
                   \o (IF sendT THEN <<light_set_temperature_internal(temperature)>>
                       ELSE <<>>)
       IN  LightTaskFinish(sent, l2)
    /\ UNCHANGED <<unit, appVars, light_shadow, light_call, switchVars, encVars>>

\* faulty variant: the hue is taken from light_shadow_last
LightSampleHue_Last ==
    /\ unit \in LightUnits
    /\ light_pc = "hue"
    /\ light_loc' = [light_loc EXCEPT !.hue = light_shadow_last.hue]
    /\ light_pc' = "saturation"
    /\ tx' = <<>>
    /\ UNCHANGED light_hist
    /\ UNCHANGED <<unit, appVars, light_shadow, light_shadow_last, light_call,
                   switchVars, encVars>>

\* light_set_by_mode, COLOR case: the samples of hue and of saturation
LightSampleHue ==
    /\ unit \in LightUnits
    /\ light_pc = "hue"
    /\ light_loc' = [light_loc EXCEPT !.hue = light_shadow.hue]
    /\ light_pc' = "saturation"
    /\ tx' = <<>>
    /\ UNCHANGED light_hist
    /\ UNCHANGED <<unit, appVars, light_shadow, light_shadow_last, light_call,
                   switchVars, encVars>>

LightSampleSaturation ==
    /\ unit \in LightUnits
    /\ light_pc = "saturation"
    /\ light_loc' = [light_loc EXCEPT !.saturation = light_shadow.saturation]
    /\ light_pc' = "value"
    /\ tx' = <<>>
    /\ UNCHANGED light_hist
    /\ UNCHANGED <<unit, appVars, light_shadow, light_shadow_last, light_call,
                   switchVars, encVars>>

\* faulty variant: the HSV packet is sent and light_shadow_last is not updated
LightSampleValue_NoStore ==
    /\ unit \in LightUnits
    /\ light_pc = "value"
    /\ LET hue        == light_loc.hue
           saturation == light_loc.saturation
           value      == light_shadow.value
           send == \/ light_loc.mode_changed
                   \/ hue # light_shadow_last.hue
                   \/ saturation # light_shadow_last.saturation
                   \/ value # light_shadow_last.value
           sent == IF send THEN <<light_set_hsv_internal(hue, saturation, value)>>
                   ELSE <<>>
       IN  LightTaskFinish(sent, light_shadow_last)
    /\ UNCHANGED <<unit, appVars, light_shadow, light_call, switchVars, encVars>>

\* the sample of light_shadow.value and the rest of the COLOR case
LightSampleValue ==
    /\ unit \in LightUnits
    /\ light_pc = "value"
    /\ LET hue        == light_loc.hue
           saturation == light_loc.saturation
           value      == light_shadow.value
           send == \/ light_loc.mode_changed
                   \/ hue # light_shadow_last.hue
                   \/ saturation # light_shadow_last.saturation
                   \/ value # light_shadow_last.value
           l1 == IF send
                 THEN [light_shadow_last EXCEPT !.hue = hue, !.saturation = saturation,
                                                !.value = value]
                 ELSE light_shadow_last
           sent == IF send THEN <<light_set_hsv_internal(hue, saturation, value)>>
                   ELSE <<>>
       IN  LightTaskFinish(sent, l1)
    /\ UNCHANGED <<unit, appVars, light_shadow, light_call, switchVars, encVars>>

\* a setter's single store to light_shadow
LightStore(field, v, next) ==
    /\ light_shadow' = [light_shadow EXCEPT ![field] = v]
    /\ light_call' = next
    /\ tx' = <<>>
    /\ light_hist' = LightStored(field, v, next)
    /\ UNCHANGED <<unit, appVars, light_shadow_last, light_pc, light_loc,
                   switchVars, encVars>>

\* light_color_set_on: the store to on, then the store to mode
light_color_set_on(on) ==
    /\ unit \in LightUnits
    /\ light_call = "idle"
    /\ LightStore("on", on, "light_color_set_on")

light_color_set_on_mode ==
    /\ unit \in LightUnits
    /\ light_call = "light_color_set_on"
    /\ LightStore("mode", "LIGHT_MODE_COLOR", "idle")

\* faulty variant: the setter of hue also selects the COLOR mode
light_set_hue_SetsMode(hue) ==
    /\ unit \in LightUnits
    /\ light_call = "idle"
    /\ light_shadow' = [light_shadow EXCEPT !.hue = U16OfFloat(hue),
                                           !.mode = "LIGHT_MODE_COLOR"]
    /\ tx' = <<>>
    /\ UNCHANGED <<unit, appVars, light_shadow_last, light_pc, light_loc, light_call,
                   light_hist, switchVars, encVars>>

light_set_hue(hue) ==
    /\ unit \in LightUnits
    /\ light_call = "idle"
    /\ LightStore("hue", U16OfFloat(hue), "idle")

light_set_saturation(saturation) ==
    /\ unit \in LightUnits
    /\ light_call = "idle"
    /\ LightStore("saturation", U8OfFloat(saturation), "idle")

light_set_value(value) ==
    /\ unit \in LightUnits
    /\ light_call = "idle"
    /\ LightStore("value", value, "idle")

light_white_set_on(on) ==
    /\ unit \in LightUnits
    /\ light_call = "idle"
    /\ LightStore("on", on, "light_white_set_on")

light_white_set_on_mode ==
    /\ unit \in LightUnits
    /\ light_call = "light_white_set_on"
    /\ LightStore("mode", "LIGHT_MODE_WHITE", "idle")

light_set_brightness(brightness) ==
    /\ unit \in LightUnits
    /\ light_call = "idle"
    /\ LightStore("brightness", brightness, "idle")

LightTemperaturePercent(temperature) ==
    U8OfU32(U32Div(U32Mul(U32Sub(U32(300), temperature), 100), 350))

light_set_temperature(temperature) ==
    /\ unit \in LightUnits
    /\ light_call = "idle"
    /\ LightStore("temperature", LightTemperaturePercent(temperature), "idle")

\* the steps of light_task
LightTask ==
    \/ LightTaskSampleOn
    \/ LightSampleMode
    \/ LightSampleBrightness
    \/ LightSampleTemperature
    \/ LightSampleHue
    \/ LightSampleSaturation
    \/ LightSampleValue

\* the steps of the setters of light.c
LightSetters ==
    \/ \E on \in BOOLEAN : light_color_set_on(on)
    \/ light_color_set_on_mode
    \/ \E hue \in LightHueVals : light_set_hue(hue)
    \/ \E saturation \in LightSaturationVals : light_set_saturation(saturation)
    \/ \E value \in LightValueVals : light_set_value(value)
    \/ \E on \in BOOLEAN : light_white_set_on(on)
    \/ light_white_set_on_mode
    \/ \E brightness \in LightBrightnessVals : light_set_brightness(brightness)
    \/ \E temperature \in LightTemperatureVals : light_set_temperature(temperature)

\* the setters of on, mode, hue and brightness
LightSettersLive ==
    \/ \E on \in BOOLEAN : light_color_set_on(on)
    \/ light_color_set_on_mode
    \/ \E hue \in LightHueVals : light_set_hue(hue)
    \/ \E on \in BOOLEAN : light_white_set_on(on)
    \/ light_white_set_on_mode
    \/ \E brightness \in LightBrightnessVals : light_set_brightness(brightness)

NextLight ==
    \/ LightTask
    \/ LightSetters

----------------------------------------------------------------------------
(* switch.c *)

switch_set_on_internal(on) == <<0, 0, 1, U8OfBool(on)>>

\* History of the switch dispatcher:
\*   wire   the payloads last transmitted, see Deliver
\*   burst  the stores to switch_shadow.on since the last sample of it
\*   seen   burst as the last sample of switch_shadow.on found it
\*   owed   the calls that changed switch_shadow.on less the on/off packets
SwitchHistZero == [wire |-> WireZero, burst |-> "none", seen |-> "none", owed |-> 0]

\* the history after an iteration that sent the packets sent, and after a
\* setter's store
SwitchTicked(sent) ==
    [switch_hist EXCEPT !.wire = DeliverAll(@, sent), !.seen = switch_hist.burst,
                        !.burst = "none", !.owed = Owed(@, FALSE, sent)]

SwitchStored(on) ==
    [switch_hist EXCEPT !.burst = More(@),
                        !.owed = Owed(@, on # switch_shadow.on, <<>>)]

\* faulty variant: the on/off packet is sent without comparing
SwitchTask_Always ==
    /\ unit = "switch"
    /\ LET on == switch_shadow.on
       IN  /\ tx' = <<switch_set_on_internal(on)>>
           /\ switch_shadow_last' = [switch_shadow_last EXCEPT !.on = on]
    /\ switch_hist' = SwitchTicked(tx')
    /\ UNCHANGED <<unit, appVars, lightVars, switch_shadow, encVars>>

\* one iteration of switch_task
SwitchTask ==
    /\ unit = "switch"
    /\ LET on == switch_shadow.on
       IN  IF on # switch_shadow_last.on
           THEN /\ tx' = <<switch_set_on_internal(on)>>
                /\ switch_shadow_last' = [switch_shadow_last EXCEPT !.on = on]
           ELSE /\ tx' = <<>>
                /\ UNCHANGED switch_shadow_last
    /\ switch_hist' = SwitchTicked(tx')
    /\ UNCHANGED <<unit, appVars, lightVars, switch_shadow, encVars>>

switch_set_on(on) ==
    /\ unit = "switch"
    /\ switch_shadow' = [switch_shadow EXCEPT !.on = on]
    /\ tx' = <<>>
    /\ switch_hist' = SwitchStored(on)
    /\ UNCHANGED <<unit, appVars, lightVars, switch_shadow_last, encVars>>

NextSwitch ==
    \/ SwitchTask
    \/ \E on \in BOOLEAN : switch_set_on(on)

----------------------------------------------------------------------------
(* The two color-temperature encoders, applied to one input *)

MaxT   == 400
MaxNeg == 64

\* the inputs: 0..MaxT, and the top MaxNeg values of uint32_t written as -1..-MaxNeg
TSweep == (0 - MaxNeg) .. MaxT

EncodeApp ==
    /\ unit = "encode"
    /\ encOut.app = <<>>
    /\ encOut' = [encOut EXCEPT !.app = MeshSetColorTemperature(Ctx, U32(encIn)).tx[1]]
    /\ UNCHANGED <<unit, appVars, tx, lightVars, switchVars, encIn>>

EncodeLight ==
    /\ unit = "encode"
    /\ encOut.light = <<>>
    /\ encOut' = [encOut EXCEPT
                     !.light = light_set_temperature_internal(
                                   LightTemperaturePercent(U32(encIn)))]
    /\ UNCHANGED <<unit, appVars, tx, lightVars, switchVars, encIn>>

\* The two brightness encoders, applied to encIn as the int32_t that a caller
\* holds: the uint8_t parameter of MeshSetBrightness, and that of
\* light_set_brightness on the way to light_set_brightness_internal, convert it
EncodeAppBrightness ==
    /\ unit = "encode"
    /\ encOut.appB = <<>>
    /\ encOut' = [encOut EXCEPT !.appB = MeshSetBrightness(Ctx, encIn).tx[1]]
    /\ UNCHANGED <<unit, appVars, tx, lightVars, switchVars, encIn>>

EncodeLightBrightness ==
    /\ unit = "encode"
    /\ encOut.lightB = <<>>
    /\ encOut' = [encOut EXCEPT !.lightB = light_set_brightness_internal(U8(encIn))]
    /\ UNCHANGED <<unit, appVars, tx, lightVars, switchVars, encIn>>

NextEncode ==
    \/ EncodeApp
    \/ EncodeLight
    \/ EncodeAppBrightness
    \/ EncodeLightBrightness

----------------------------------------------------------------------------
(* Specifications *)

Units == {"App", "switch", "encode"} \cup LightFamilies

InitUnit(u) ==
    /\ unit = u
    /\ pc = "off"
    /\ state = ZeroState
    /\ kvs \in IF u = "App" THEN {NoRecord, ShortRecord} \cup {Record(s) : s \in States}
               ELSE {NoRecord}
    /\ saved = [valid |-> FALSE, s |-> ZeroState]
    /\ last = [op |-> "Reboot", arg |-> "none", old |-> "none", out |-> "none",
               ret |-> "none", steps |-> <<>>, raised |-> <<>>]
    /\ tx = <<>>
    /\ light_shadow = LightShadowZero
    /\ light_shadow_last = LightShadowZero
    /\ light_pc = "tick"
    /\ light_loc = LightLocZero
    /\ light_call = "idle"
    /\ light_hist = LightHistZero
    /\ switch_shadow = [on |-> FALSE]
    /\ switch_shadow_last = [on |-> FALSE]
    /\ switch_hist = SwitchHistZero
    /\ encIn \in IF u = "encode" THEN TSweep ELSE {0}
    /\ encOut = [app |-> <<>>, light |-> <<>>, appB |-> <<>>, lightB |-> <<>>]

Init == \E u \in Units : InitUnit(u)

Next ==
    \/ NextApp
    \/ NextLight
    \/ NextSwitch
    \/ NextEncode

Spec       == Init /\ [][Next]_vars
SpecApp    == InitUnit("App") /\ [][NextApp]_vars
SpecLight  == (\E u \in LightFamilies : InitUnit(u)) /\ [][NextLight]_vars
SpecEncode == InitUnit("encode") /\ [][NextEncode]_vars

\* The light with light_color_set_on and the setters of hue, saturation and
\* value called, in any interleaving with the steps of light_task
LightSettersHSV ==
    \/ \E on \in BOOLEAN : light_color_set_on(on)
    \/ light_color_set_on_mode
    \/ \E hue \in LightHueVals : light_set_hue(hue)
    \/ \E saturation \in LightSaturationVals : light_set_saturation(saturation)
    \/ \E value \in LightValueVals : light_set_value(value)
NextHSV ==
    \/ LightTask
    \/ LightSettersHSV
SpecHSV == InitUnit("light_hsv") /\ [][NextHSV]_vars

\* the two dispatchers, light.c's and switch.c's
DispatchUnits == LightFamilies \cup {"switch"}
NextDispatch ==
    \/ NextLight
    \/ NextSwitch
SpecDispatch == (\E u \in DispatchUnits : InitUnit(u)) /\ [][NextDispatch]_vars

\* The dispatchers with their tasks scheduled: each is a FreeRTOS task that
\* loops forever on vTaskDelay, so a step of it that stays possible is taken.
\* The light is the "light_white" family without its calls of
\* light_set_temperature.
NextDispatchLive ==
    \/ LightTask
    \/ LightSettersLive
    \/ NextSwitch
SpecDispatchFair ==
    /\ \E u \in {"light_white", "switch"} : InitUnit(u)
    /\ [][NextDispatchLive]_vars
    /\ WF_vars(LightTask)
    /\ WF_vars(SwitchTask)

----------------------------------------------------------------------------
(* Properties of the App.c callbacks *)

Range(q) == {q[i] : i \in DOMAIN q}
Count(q, x) == Cardinality({i \in DOMAIN q : q[i] = x})
Before(q, x, y) == \E i, j \in DOMAIN q : i < j /\ q[i] = x /\ q[j] = y

WriteOps ==
    {"HandleLightBulbOnWrite", "HandleLightBulbHueWrite",
     "HandleLightBulbSaturationWrite", "HandleLightBulbBrightnessWrite",
     "HandleWhiteOnWrite", "HandleWhiteBrightnessWrite",
     "HandleWhiteColorTemperatureWrite"}

PlainReadOps ==
    {"HandleLightBulbOnRead", "HandleLightBulbHueRead",
     "HandleLightBulbSaturationRead", "HandleLightBulbBrightnessRead",
     "HandleWhiteOnRead", "HandleWhiteBrightnessRead"}

\* the state field a callback is about
FieldOf(op) ==
    CASE op \in {"HandleLightBulbOnWrite", "HandleLightBulbOnRead"} -> "lightBulbOn"
      [] op \in {"HandleLightBulbHueWrite", "HandleLightBulbHueRead"} -> "lightBulbHue"
      [] op \in {"HandleLightBulbSaturationWrite", "HandleLightBulbSaturationRead"} ->
             "lightBulbSaturation"
      [] op \in {"HandleLightBulbBrightnessWrite", "HandleLightBulbBrightnessRead"} ->
             "lightBulbBrightness"
      [] op \in {"HandleWhiteOnWrite", "HandleWhiteOnRead"} -> "whiteOn"
      [] op \in {"HandleWhiteBrightnessWrite", "HandleWhiteBrightnessRead"} ->
             "whiteBrightness"
      [] op \in {"HandleWhiteColorTemperatureWrite", "HandleWhiteColorTemperatureRead"} ->
             "whiteColorTemperature"

\* this step is a call of op made while the process runs
Calls(op) == pc = "running" /\ last'.op = op

\* C1: a write whose value equals the current field changes nothing (state,
\* persisted record, no mesh packet, no notification, no step at all); and when
\* the same write is made twice in a row, the two calls together make exactly
\* one mesh send, one store write and one notification if the field differed
\* before the first call, and none if it did not.
C1_SameValueWriteIsNoop ==
    [][\A op \in WriteOps :
         /\ (Calls(op) /\ last'.arg = state[FieldOf(op)]) =>
                /\ state' = state
                /\ kvs' = kvs
                /\ tx' = <<>>
                /\ last'.raised = <<>>
                /\ last'.steps = <<>>
                /\ last'.ret = "kHAPError_None"
         /\ (Calls(op) /\ last.op = op /\ last'.arg = last.arg) =>
                LET total(k) == Count(last.steps, k) + Count(last'.steps, k)
                    n == IF last.old # last.arg THEN 1 ELSE 0
                IN  /\ total("mesh") = n
                    /\ total("set") = n
                    /\ total("raise") = n
                    /\ Len(tx) + Len(tx') = n
                    /\ Len(last.raised) + Len(last'.raised) = n
      ]_vars

C1_Witness ==
    /\ pc = "running"
    /\ last.op = "HandleLightBulbHueWrite"
    /\ last.arg = 601
    /\ last.old = 601
    /\ last.steps = <<>>

\* C2: a write whose value differs from the current field sets the field, then
\* hands one mesh packet to the transport, then writes the whole state record
\* to the store, then raises one notification for the written characteristic,
\* and returns success (the store accepting the write; C6 is the other case).
C2_ChangedWriteSteps ==
    (/\ last.op \in WriteOps
     /\ last.old # last.arg
     /\ "set_err" \notin Range(last.steps)) =>
        /\ last.steps = <<"write", "mesh", "set", "raise">>
        /\ state[FieldOf(last.op)] = last.arg
        /\ Len(tx) = 1
        /\ kvs = Record(state)
        /\ last.raised = <<FieldOf(last.op)>>
        /\ last.ret = "kHAPError_None"
        /\ pc = "running"

C2_Witness ==
    /\ last.op = "HandleWhiteBrightnessWrite"
    /\ last.old = 0
    /\ last.arg = 300
    /\ last.ret = "kHAPError_None"

\* C3 as claimed: in a write that changes a value the state is persisted before
\* the mesh packet is handed to the transport.
C3_PersistBeforeMesh ==
    (last.op \in WriteOps /\ "mesh" \in Range(last.steps)) =>
        Before(last.steps, "set", "mesh")

\* C3 as amended: in a write that changes a value the field is updated, then
\* the mesh packet is handed to the transport, and only then is the store
\* written (or the write to it attempted).
C3_MeshBeforePersist ==
    (last.op \in WriteOps /\ last.old # last.arg) =>
        /\ Len(last.steps) >= 3
        /\ last.steps[1] = "write"
        /\ last.steps[2] = "mesh"
        /\ last.steps[3] \in {"set", "set_err"}
        /\ ~Before(last.steps, "set", "mesh")
        /\ ~Before(last.steps, "set_err", "mesh")

C3_Witness ==
    /\ last.op = "HandleWhiteOnWrite"
    /\ last.arg = TRUE
    /\ last.old = FALSE
    /\ last.steps = <<"write", "mesh", "set", "raise">>

\* C4: a state saved by SaveAccessoryState and then loaded by
\* LoadAccessoryState (AppCreate after a restart), the store reporting no error
\* and not written in between, is the in-memory state again, in all seven fields.
C4_SaveLoadRoundTrip ==
    (/\ last.op = "AppCreate"
     /\ "get" \in Range(last.steps)
     /\ saved.valid) =>
        /\ state = saved.s
        /\ \A f \in DOMAIN ZeroState : state[f] = saved.s[f]

C4_Witness ==
    /\ last.op = "AppCreate"
    /\ pc = "running"
    /\ saved.valid
    /\ saved.s.whiteBrightness = 300
    /\ saved.s.lightBulbBrightness = 100
    /\ saved.s.lightBulbOn
    /\ state = saved.s

\* C5: when Get reports no error and the record is absent or of another size,
\* LoadAccessoryState leaves every field zero/false, returns normally (the
\* process runs on) and writes nothing to the store.
C5_LoadRecovers ==
    [][(/\ pc = "off"
        /\ last'.op = "AppCreate"
        /\ "get_err" \notin Range(last'.steps)
        /\ (~kvs.found \/ kvs.numBytes # 28)) =>
           /\ state' = ZeroState
           /\ pc' = "running"
           /\ last'.ret = "kHAPError_None"
           /\ kvs' = kvs
           /\ "set" \notin Range(last'.steps)
           /\ "fatal" \notin Range(last'.steps)
      ]_vars

C5_Witness ==
    /\ last.op = "AppCreate"
    /\ pc = "running"
    /\ kvs.found
    /\ kvs.numBytes = 16
    /\ state = ZeroState

\* C6: a store error from Get or Set halts the process at that point: nothing
\* follows the failed call but the halt (no second store call, no notification),
\* the call does not return, and a halted process runs no callback and makes no
\* store call.
C6_StoreErrorHalts ==
    [][/\ \A i \in DOMAIN last'.steps :
              last'.steps[i] \in {"get_err", "set_err"} =>
                  /\ i = Len(last'.steps) - 1
                  /\ last'.steps[i + 1] = "fatal"
                  /\ Count(last'.steps, "get") + Count(last'.steps, "set") = 0
                  /\ last'.raised = <<>>
                  /\ last'.ret = "none"
                  /\ pc' = "halted"
                  /\ kvs' = kvs
       /\ pc = "halted" => (last'.op = "Reboot" /\ kvs' = kvs /\ last'.steps = <<>>)
      ]_vars

C6_Witness ==
    /\ pc = "halted"
    /\ last.op = "HandleWhiteOnWrite"
    /\ last.steps = <<"write", "mesh", "set_err", "fatal">>

\* C7: every read callback but HandleWhiteColorTemperatureRead returns the
\* current value of its field with success and changes nothing: not the state,
\* not the persisted record, no mesh packet, no notification.
C7_ReadsReturnFieldNoIO ==
    [][\A op \in PlainReadOps :
         Calls(op) =>
            /\ last'.out = state[FieldOf(op)]
            /\ last'.ret = "kHAPError_None"
            /\ state' = state
            /\ kvs' = kvs
            /\ tx' = <<>>
            /\ last'.raised = <<>>
            /\ last'.steps = <<>>
            /\ pc' = "running"
      ]_vars

C7_Witness ==
    /\ last.op = "HandleWhiteBrightnessRead"
    /\ last.out = 300
    /\ state.lightBulbBrightness = 100

\* C8: HandleWhiteColorTemperatureRead with a stored value below 50 sets it to
\* 50 and persists the state before it returns; what it returns is the larger
\* of the stored value and 50; with a stored value of at least 50 nothing is
\* changed or persisted; it never sends a mesh packet or raises a notification.
C8_ColorTemperatureReadClamps ==
    [][Calls("HandleWhiteColorTemperatureRead") =>
         LET stored == state.whiteColorTemperature
             below  == stored[1] = 0 /\ stored[2] < 50
             returned == last'.ret = "kHAPError_None"
         IN  /\ tx' = <<>>
             /\ last'.raised = <<>>
             /\ ~below => (state' = state /\ kvs' = kvs /\ last'.steps = <<>> /\ returned)
             /\ (below /\ returned) =>
                    /\ state' = [state EXCEPT !.whiteColorTemperature = <<0, 50>>]
                    /\ kvs' = Record(state')
                    /\ last'.steps = <<"write", "set">>
             /\ returned =>
                    /\ last'.out = IF below THEN <<0, 50>> ELSE stored
                    /\ (last'.out[1] > 0 \/ last'.out[2] >= 50)
      ]_vars

C8_Witness ==
    /\ last.op = "HandleWhiteColorTemperatureRead"
    /\ last.old = <<0, 49>>
    /\ last.out = <<0, 50>>
    /\ kvs = Record(state)

----------------------------------------------------------------------------
(* Properties of the packet encoders *)

\* the byte the formula of the claim denotes for T = t mod 2^32, with
\* -2^20 < t < 2^20:  ((((300 - T) mod 2^32) * 100) mod 2^32) div 350 mod 256.
\* With p = (300 - t) * 100 the product mod 2^32 is p when p >= 0 and 2^32 + p
\* when p < 0, and 2^32 = 350 * 12271335 + 46.
ClaimPercent(t) ==
    LET p == (300 - t) * 100
    IN  IF p >= 0 THEN (p \div 350) % 256
        ELSE (12271335 + (46 + p) \div 350) % 256

\* C9: the color-temperature-percent byte for T is
\* ((((300 - T) mod 2^32) * 100) mod 2^32) div 350 mod 256; for 0 <= T <= 300
\* that is the truncated quotient (300 - T) * 100 / 350, 0 for T = 300; it is
\* 100 for T = -50 as a uint32_t; App.c and light.c compute the same byte.
C9_PercentByte ==
    /\ encOut.app # <<>> =>
          /\ encOut.app[4] = ClaimPercent(encIn)
          /\ encIn \in 0..300 => encOut.app[4] = ((300 - encIn) * 100) \div 350
          /\ encIn = 300 => encOut.app[4] = 0
          /\ encIn = -50 => encOut.app[4] = 100
    /\ encOut.light # <<>> =>
          /\ encOut.light[4] = ClaimPercent(encIn)
          /\ encIn \in 0..300 => encOut.light[4] = ((300 - encIn) * 100) \div 350
          /\ encIn = 300 => encOut.light[4] = 0
          /\ encIn = -50 => encOut.light[4] = 100
    /\ (encOut.app # <<>> /\ encOut.light # <<>>) => encOut.app[4] = encOut.light[4]

C9_Witness ==
    /\ encIn = -50
    /\ encOut.app = <<0, 241, 1, 100>>
    /\ encOut.light = <<0, 241, 1, 100>>

IsByte(x) == x \in 0..255

OnOffShape(p) == Len(p) = 4 /\ p[2] = 0 /\ p[3] = 1 /\ p[4] \in {0, 1}
HSVShape(p) ==
    Len(p) = 7 /\ p[2] = 35 /\ p[3] = 1 /\ IsByte(p[4]) /\ IsByte(p[5])
               /\ IsByte(p[6]) /\ IsByte(p[7])
BrightnessShape(p) == Len(p) = 5 /\ p[2] = 33 /\ p[3] = 1 /\ IsByte(p[4]) /\ p[5] = 0
PercentShape(p) == Len(p) = 4 /\ p[2] = 241 /\ p[3] = 1 /\ IsByte(p[4])

PacketShape(p) ==
    /\ Len(p) >= 4
    /\ p[1] = 0
    /\ OnOffShape(p) \/ HSVShape(p) \/ BrightnessShape(p) \/ PercentShape(p)

\* the HSV packet for a 16-bit hue h, saturation s and value v
HSVPacket(h, s, v) == <<0, 35, 1, h % 256, h \div 256, s, v>>

\* C10: every packet handed to the transport, by whichever encoder, starts with
\* 00 and is an on/off packet [00 00 01 v], v in {0, 1}, an HSV packet
\* [00 23 01 hue mod 256, hue div 256, saturation, value], a brightness packet
\* [00 21 01 b 00] or a color-temperature-percent packet [00 F1 01 p]; the
\* payload is that of the field sent (the 16-bit hue low byte first).
C10_PacketShapes ==
    /\ \A i \in DOMAIN tx : PacketShape(tx[i])
    /\ encOut.app # <<>> => PacketShape(encOut.app) /\ PercentShape(encOut.app)
    /\ encOut.light # <<>> => PacketShape(encOut.light) /\ PercentShape(encOut.light)
    /\ \A i \in DOMAIN tx :
          /\ (unit = "App" /\ HSVShape(tx[i])) =>
                 tx[i] = HSVPacket(state.lightBulbHue \div 2,
                                   (state.lightBulbSaturation \div 2) % 256,
                                   state.lightBulbBrightness % 256)
          /\ (unit = "App" /\ BrightnessShape(tx[i])) =>
                 tx[i] = <<0, 33, 1, state.whiteBrightness % 256, 0>>
          /\ (unit = "App" /\ OnOffShape(tx[i])) =>
                 tx[i][4] = (IF last.arg THEN 1 ELSE 0)
          /\ (unit \in LightUnits /\ HSVShape(tx[i])) =>
                 tx[i] = HSVPacket(light_shadow_last.hue, light_shadow_last.saturation,
                                   light_shadow_last.value)
          /\ (unit \in LightUnits /\ BrightnessShape(tx[i])) =>
                 tx[i] = <<0, 33, 1, light_shadow_last.brightness, 0>>
          /\ (unit \in LightUnits /\ PercentShape(tx[i])) =>
                 tx[i] = <<0, 241, 1, light_shadow_last.temperature>>
          /\ (unit \in LightUnits /\ OnOffShape(tx[i])) =>
                 tx[i][4] = (IF light_shadow_last.on THEN 1 ELSE 0)
          /\ unit = "switch" =>
                 tx[i] = <<0, 0, 1, IF switch_shadow_last.on THEN 1 ELSE 0>>

C10_Witness ==
    /\ unit = "light_color"
    /\ tx = <<HSVPacket(300, 75, 100), <<0, 0, 1, 1>>>>

----------------------------------------------------------------------------
(* Properties of the dispatchers (light.c, switch.c) *)

Has(q, Shape(_)) == \E i \in DOMAIN q : Shape(q[i])

OnPacket  == <<0, 0, 1, 1>>
OffPacket == <<0, 0, 1, 0>>
BrightnessPacket(b) == <<0, 33, 1, b, 0>>
PercentPacket(t) == <<0, 241, 1, t>>

\* this step ends an iteration of light_task: it is the step of light_task
\* that found on = false, or the last step of the WHITE or of the COLOR case
LightEnds ==
    \/ LightTaskSampleOn /\ ~light_shadow.on
    \/ LightSampleTemperature
    \/ LightSampleValue

\* light_shadow_last as the iteration that this step ends found it
LightPrev == IF light_pc = "tick" THEN light_shadow_last ELSE light_hist.prev

\* the iteration sampled what was last sent: on, and with on set the mode and
\* the fields of that mode
LightSampledLastSent(s, prev) ==
    /\ s.on = prev.on
    /\ s.on =>
         /\ s.mode = prev.mode
         /\ IF s.mode = "LIGHT_MODE_WHITE"
            THEN s.brightness = prev.brightness /\ s.temperature = prev.temperature
            ELSE s.hue = prev.hue /\ s.saturation = prev.saturation
                 /\ s.value = prev.value

\* the packets of the example, by the number of states of LightScript sampled
LightScenPackets(log, stage) ==
    /\ Len(log) = IF stage <= 1 THEN 0 ELSE IF stage = 2 THEN 2 ELSE 3
    /\ Count(log, OnPacket) = IF stage <= 1 THEN 0 ELSE 1
    /\ Count(log, BrightnessPacket(10)) = IF stage <= 1 THEN 0 ELSE 1
    /\ Count(log, BrightnessPacket(20)) = IF stage <= 2 THEN 0 ELSE 1

\* C11: an iteration of light_task that samples on, mode and the fields of
\* that mode all equal to what was last sent sends no packet; it sends an
\* on/off packet only if the sampled on differs from the last-sent on, and a
\* brightness packet only if the mode changed or the sampled brightness
\* differs from the last-sent brightness.  When the iterations, from the zero
\* shadow, sample off, then on(white, 10), then on(white, 20), each once or
\* more, the packets sent are exactly one ON, one brightness 10 and one
\* brightness 20: a repeated state sends nothing.
C11_DispatcherDiffing ==
    /\ [][LightEnds =>
            LET s == LightSample
                prev == LightPrev
            IN  /\ LightSampledLastSent(s, prev) => tx' = <<>>
                /\ Has(tx', OnOffShape) => s.on # prev.on
                /\ Has(tx', BrightnessShape) =>
                       s.mode # prev.mode \/ s.brightness # prev.brightness]_vars
    /\ [](light_hist.scen.alive =>
            LightScenPackets(light_hist.scen.log, light_hist.scen.stage))

\* the example has run to its end and a further iteration has sampled
\* on(white, 20) without sending
C11_Witness ==
    /\ unit = "light_white"
    /\ light_hist.scen.alive
    /\ light_hist.scen.stage = 3
    /\ light_hist.scen.again
    /\ light_hist.scen.log = <<BrightnessPacket(10), OnPacket, BrightnessPacket(20)>>
    /\ light_pc = "tick"
    /\ light_shadow = LightScript[3]
    /\ light_shadow_last = LightScript[3]
    /\ tx = <<>>

\* C12: between two iterations of light_task, and of switch_task, whatever
\* the setters did in between, each last-sent field (on; brightness;
\* temperature; hue, saturation, value) is the payload of the last packet of
\* its kind that was transmitted, and zero if none was.
C12_LastSentIsLastTransmitted ==
    /\ (unit \in LightUnits /\ light_pc = "tick") =>
           /\ U8OfBool(light_shadow_last.on) = light_hist.wire.on
           /\ light_shadow_last.brightness  = light_hist.wire.brightness
           /\ light_shadow_last.temperature = light_hist.wire.temperature
           /\ light_shadow_last.hue         = light_hist.wire.hue
           /\ light_shadow_last.saturation  = light_hist.wire.saturation
           /\ light_shadow_last.value       = light_hist.wire.value
    /\ unit = "switch" => U8OfBool(switch_shadow_last.on) = switch_hist.wire.on

\* between two iterations, after an HSV packet and an ON packet, with the
\* setters having moved the shadow on since
C12_Witness ==
    /\ unit = "light_color"
    /\ light_pc = "tick"
    /\ light_hist.wire = [WireZero EXCEPT !.on = 1, !.hue = 300, !.saturation = 75,
                                          !.value = 100]
    /\ light_shadow.hue = 0
    /\ ~light_shadow.on

CountOf(q, Shape(_)) == Cardinality({i \in DOMAIN q : Shape(q[i])})

\* this step is an iteration of switch_task (a store of switch_set_on counts
\* itself in burst)
SwitchIterates == unit = "switch" /\ switch_hist'.burst = "none"

\* the samples of light_task take what light_shadow holds, which is what the
\* last setter call stored there
LightSamplesShadow ==
    /\ (light_pc = "tick" /\ light_pc' = "mode") => light_loc'.on = light_shadow.on
    /\ (light_pc = "mode" /\ light_pc' # "mode") => light_loc'.mode = light_shadow.mode
    /\ (light_pc = "brightness" /\ light_pc' = "temperature") =>
           light_loc'.brightness = light_shadow.brightness
    /\ (light_pc = "hue" /\ light_pc' = "saturation") => light_loc'.hue = light_shadow.hue
    /\ (light_pc = "saturation" /\ light_pc' = "value") =>
           light_loc'.saturation = light_shadow.saturation

\* the packets of an iteration that sampled s: one of a kind at most, each
\* with the sampled value for payload
LightSendsSample(sent, s) ==
    /\ CountOf(sent, OnOffShape) <= 1 /\ CountOf(sent, BrightnessShape) <= 1
    /\ CountOf(sent, PercentShape) <= 1 /\ CountOf(sent, HSVShape) <= 1
    /\ \A i \in DOMAIN sent :
           sent[i] \in {IF s.on THEN OnPacket ELSE OffPacket,
                        BrightnessPacket(s.brightness), PercentPacket(s.temperature),
                        HSVPacket(s.hue, s.saturation, s.value)}

\* what both readings of last-write-wins share
LastWriteWinsPayloads ==
    /\ unit \in LightUnits => LightSamplesShadow
    /\ LightEnds => LightSendsSample(tx', LightSample)
    /\ LightEnds => (LightSample.on = LightPrev.on => ~Has(tx', OnOffShape))
    /\ SwitchIterates =>
           /\ tx' \in {<<>>, <<IF switch_shadow.on THEN OnPacket ELSE OffPacket>>}
           /\ switch_shadow.on = switch_shadow_last.on => tx' = <<>>

\* a sampled field of the sampled mode that equals its last-sent value
\* (hue, saturation and value all three) has no packet
LightEqualUnsent(sent, s, prev) ==
    /\ (s.on /\ s.mode = "LIGHT_MODE_WHITE") =>
           /\ s.brightness = prev.brightness => ~Has(sent, BrightnessShape)
           /\ s.temperature = prev.temperature => ~Has(sent, PercentShape)
    /\ (s.on /\ s.mode = "LIGHT_MODE_COLOR") =>
           ((s.hue = prev.hue /\ s.saturation = prev.saturation /\ s.value = prev.value)
                => ~Has(sent, HSVShape))

\* C13 as stated, for the on flag of the switch and the value of the light:
\* after several setter calls that wrote the field between two samples of it,
\* the next iteration transmits at most one packet with that field, its
\* payload is what the last call stored, and the field has no packet when
\* what the last call stored equals the last-sent value.
C13_EqualNeverSent ==
    [][/\ LastWriteWinsPayloads
       /\ (LightEnds /\ light_pc = "value" /\ light_hist.burst = "several") =>
              LightEqualUnsent(tx', LightSample, LightPrev)]_vars

\* C13: however many setter calls wrote a field between two samples of it,
\* the next iteration transmits at most one packet with that field, its
\* payload is what the last call stored, and the on flag has no packet when it
\* equals the last-sent on.  A field of the light that equals its last-sent
\* value has no packet unless the sampled mode differs from the last-sent
\* mode (hue, saturation and value have one packet between them, sent when
\* any of them differs).
C13_LastWriteWins ==
    [][/\ LastWriteWinsPayloads
       /\ (LightEnds /\ LightSample.mode = LightPrev.mode) =>
              LightEqualUnsent(tx', LightSample, LightPrev)]_vars

\* several calls of switch_set_on between two samples, the last of them
\* leaving the flag set: one ON packet
C13_Witness ==
    /\ unit = "switch"
    /\ switch_hist.seen = "several"
    /\ tx = <<OnPacket>>
    /\ switch_shadow.on

\* the steps of mode isolation
ModeIsolationStep ==
    /\ (\/ light_shadow'.hue # light_shadow.hue
        \/ light_shadow'.saturation # light_shadow.saturation
        \/ light_shadow'.value # light_shadow.value) =>
           /\ light_shadow'.mode = light_shadow.mode
           /\ light_shadow'.on = light_shadow.on
    /\ LightEnds =>
           LET s == LightSample
           IN  /\ (s.on /\ s.mode = "LIGHT_MODE_WHITE") => ~Has(tx', HSVShape)
               /\ (s.on /\ s.mode = "LIGHT_MODE_COLOR") =>
                      (~Has(tx', BrightnessShape) /\ ~Has(tx', PercentShape))
    /\ light_shadow' # light_shadow =>
           (UNCHANGED <<light_pc, light_loc, light_shadow_last>> /\ tx' = <<>>)
    /\ light_shadow'.mode # light_shadow.mode =>
           light_call \in {"light_color_set_on", "light_white_set_on"}
    /\ (light_call = "light_color_set_on" /\ light_call' = "idle") =>
           light_shadow'.mode = "LIGHT_MODE_COLOR"
    /\ (light_call = "light_white_set_on" /\ light_call' = "idle") =>
           light_shadow'.mode = "LIGHT_MODE_WHITE"

\* C14: a store to hue, saturation or value of light_shadow leaves its mode
\* and on flag alone; an iteration that sampled the WHITE mode sends no HSV
\* packet and one that sampled the COLOR mode no brightness and no
\* temperature packet; light_task never writes light_shadow, so a hue written
\* in WHITE mode stays there; and the mode changes only in the second store of
\* light_color_set_on, to COLOR, and of light_white_set_on, to WHITE, which
\* they make whatever their on argument was.
C14_ModeIsolation == [][(unit \in LightUnits) => ModeIsolationStep]_vars

\* a hue written in WHITE mode: the iteration that just ended sent the
\* brightness and left the hue in the shadow, unsent
C14_Witness ==
    /\ unit = "light_white"
    /\ light_pc = "tick"
    /\ light_shadow.on /\ light_shadow_last.on
    /\ light_shadow.mode = "LIGHT_MODE_WHITE"
    /\ light_shadow.hue = 300
    /\ light_shadow_last.hue = 0
    /\ light_hist.wire.hue = 0
    /\ tx = <<BrightnessPacket(10)>>

\* the fields of light_shadow_last other than on
LightFieldsOf(l) == [l EXCEPT !.on = FALSE]

\* an iteration that sampled s with on set sends what differs from the
\* last-sent copies prev, in the sampled mode, and leaves the sampled mode and
\* its fields in the last-sent copies l
LightPendingSent(sent, s, prev, l) ==
    /\ l.mode = s.mode
    /\ IF s.mode = "LIGHT_MODE_WHITE"
       THEN /\ (s.mode # prev.mode \/ s.brightness # prev.brightness) =>
                   BrightnessPacket(s.brightness) \in Range(sent)
            /\ (s.mode # prev.mode \/ s.temperature # prev.temperature) =>
                   PercentPacket(s.temperature) \in Range(sent)
            /\ l.brightness = s.brightness /\ l.temperature = s.temperature
       ELSE /\ (\/ s.mode # prev.mode \/ s.hue # prev.hue
                \/ s.saturation # prev.saturation \/ s.value # prev.value) =>
                   HSVPacket(s.hue, s.saturation, s.value) \in Range(sent)
            /\ l.hue = s.hue /\ l.saturation = s.saturation /\ l.value = s.value

\* the steps that end an iteration, by the on flag sampled
PendingWhileOffStep ==
    /\ ~LightSample.on =>
           /\ ~Has(tx', HSVShape) /\ ~Has(tx', BrightnessShape)
           /\ ~Has(tx', PercentShape)
           /\ LightFieldsOf(light_shadow_last') = LightFieldsOf(light_shadow_last)
    /\ LightSample.on =>
           LightPendingSent(tx', LightSample, LightPrev, light_shadow_last')

\* C15: an iteration of light_task that samples on = false sends no HSV,
\* brightness or temperature packet and leaves the last-sent mode and fields
\* as they are, whatever the desired ones; an iteration that samples on = true,
\* the first one after those included, sends the fields of the sampled mode
\* that differ from their last-sent copies (all of them when the mode
\* differs) and brings the last-sent copies up to date.
C15_PendingWhileOff == [][LightEnds => PendingWhileOffStep]_vars

\* brightness 10 was desired while the light was off and never sent; the
\* first iteration that sampled on = true has sent it, then ON
C15_Witness ==
    /\ unit = "light_white"
    /\ light_pc = "tick"
    /\ light_hist.scen.alive /\ light_hist.scen.stage = 2
    /\ tx = <<BrightnessPacket(10), OnPacket>>
    /\ light_shadow_last = [LightShadowZero EXCEPT !.on = TRUE, !.brightness = 10]

\* the packets of an iteration by the change of the sampled on flag
OnOffOrderStep ==
    /\ (LightSample.on /\ ~LightPrev.on) =>
           /\ tx' # <<>>
           /\ tx'[Len(tx')] = OnPacket
           /\ \A i \in 1 .. (Len(tx') - 1) : ~OnOffShape(tx'[i])
    /\ (~LightSample.on /\ LightPrev.on) => tx' = <<OffPacket>>

\* C16: an iteration of light_task that samples on = true with the last-sent
\* on false sends its brightness, temperature and HSV packets, if any, before
\* the ON packet, which is the last packet of the iteration; one that samples
\* on = false with the last-sent on true sends the OFF packet and no other.
C16_OnLastOffAlone == [][LightEnds => OnOffOrderStep]_vars

\* the light has gone on with a brightness and a temperature to send
C16_Witness ==
    /\ unit = "light_white"
    /\ light_pc = "tick"
    /\ tx = <<BrightnessPacket(20), PercentPacket(100), OnPacket>>
    /\ light_shadow_last.on

\* the first n packets of q
Prefix(q, n) == SubSeq(q, 1, IF Len(q) < n THEN Len(q) ELSE n)

\* the packets of an iteration that sampled s with on set, by whether the
\* sampled mode is the last-sent mode of prev
ModeChangeStep(sent, s, prev) ==
    IF s.mode # prev.mode
    THEN IF s.mode = "LIGHT_MODE_WHITE"
         THEN /\ Prefix(sent, 2) = <<BrightnessPacket(s.brightness),
                                     PercentPacket(s.temperature)>>
              /\ CountOf(sent, BrightnessShape) = 1 /\ CountOf(sent, PercentShape) = 1
              /\ ~Has(sent, HSVShape)
         ELSE /\ Prefix(sent, 1) = <<HSVPacket(s.hue, s.saturation, s.value)>>
              /\ CountOf(sent, HSVShape) = 1
              /\ ~Has(sent, BrightnessShape) /\ ~Has(sent, PercentShape)
    ELSE IF s.mode = "LIGHT_MODE_WHITE"
         THEN /\ Has(sent, BrightnessShape) <=> s.brightness # prev.brightness
              /\ Has(sent, PercentShape) <=> s.temperature # prev.temperature
         ELSE Has(sent, HSVShape) <=>
                  (\/ s.hue # prev.hue \/ s.saturation # prev.saturation
                   \/ s.value # prev.value)

\* C17: an iteration of light_task with on = true stores the sampled mode in
\* the last-sent mode; when the two differed it sends every command of the
\* sampled mode, brightness then temperature for WHITE, one HSV packet for
\* COLOR, whatever the last-sent fields; when they were equal it sends the
\* brightness, the temperature, or the HSV packet, exactly when the field (one
\* of hue, saturation, value) differs from its last-sent copy.
C17_ModeChangeResends ==
    [][/\ LightSampleMode => light_shadow_last'.mode = light_shadow.mode
       /\ (LightEnds /\ LightSample.on) =>
              /\ ModeChangeStep(tx', LightSample, LightPrev)
              /\ light_shadow_last'.mode = LightSample.mode]_vars

\* the light went from COLOR to WHITE with brightness and temperature never
\* written: both are sent, equal to their last-sent zero
C17_Witness ==
    /\ unit = "light_color"
    /\ light_pc = "tick"
    /\ tx = <<BrightnessPacket(0), PercentPacket(0)>>
    /\ light_shadow_last.mode = "LIGHT_MODE_WHITE"
    /\ light_hist.wire.hue = 300

\* the on/off packets among sent are one at most, with the payload that the
\* last on/off packet before them did not have (ON when there was none)
Alternates(sent, wire) ==
    /\ CountOf(sent, OnOffShape) <= 1
    /\ \A i \in DOMAIN sent : OnOffShape(sent[i]) => sent[i][4] = 1 - wire.on

\* C18: the on/off packets of light_task, and those of switch_task, carry ON
\* and OFF in turn, beginning with ON; and neither task has sent more on/off
\* packets than there were setter calls that changed its desired on flag.
C18_OnOffAlternates ==
    /\ [][/\ LightEnds => Alternates(tx', light_hist.wire)
          /\ SwitchTask => Alternates(tx', switch_hist.wire)]_vars
    /\ [](light_hist.owed >= 0 /\ switch_hist.owed >= 0)

\* the light was set on and off again: an ON packet, then the OFF packet just
\* sent, for two calls
C18_Witness ==
    /\ unit \in LightUnits
    /\ light_pc = "tick"
    /\ tx = <<OffPacket>>
    /\ light_hist.wire.on = 0
    /\ light_hist.owed = 0
    /\ ~light_shadow.on

\* C20: light_color_set_on(true), called with the shadow off and in WHITE
\* mode, is seen by light_task whole or not at all: an iteration that sampled
\* the on flag it stored does not sample the mode from before it, and so
\* sends no brightness and no temperature packet.
C20_SetOnAtomic ==
    [][(LightEnds /\ light_hist.torn = "mode") =>
          (~Has(tx', BrightnessShape) /\ ~Has(tx', PercentShape))]_vars

\* a step of a setter of light.c or switch.c
SetterStep ==
    \/ LightSetters
    \/ \E on \in BOOLEAN : switch_set_on(on)

\* the last-sent copies have caught up with the desired state and the last
\* step sent nothing
Converged ==
    /\ tx = <<>>
    /\ unit = "switch" => switch_shadow_last.on = switch_shadow.on
    /\ unit \in LightUnits =>
           /\ light_shadow_last.on = light_shadow.on
           /\ light_shadow.on =>
                  /\ light_shadow_last.mode = light_shadow.mode
                  /\ IF light_shadow.mode = "LIGHT_MODE_WHITE"
                     THEN /\ light_shadow_last.brightness = light_shadow.brightness
                          /\ light_shadow_last.temperature = light_shadow.temperature
                     ELSE /\ light_shadow_last.hue = light_shadow.hue
                          /\ light_shadow_last.saturation = light_shadow.saturation
                          /\ light_shadow_last.value = light_shadow.value

\* C19: with the tasks scheduled, if from some point on no setter is called,
\* then from some later point on the last-sent on is the desired on, for the
\* switch and for the light, the last-sent mode and fields of that mode are
\* the desired ones when the light is desired on, and no packet is sent.
C19_Convergence == (<>[][~SetterStep]_vars) => <>[]Converged

\* the light has caught up with a desired hue in COLOR mode, after a
\* brightness in WHITE mode
C19_Witness ==
    /\ unit = "light_white"
    /\ Converged
    /\ light_pc = "tick"
    /\ light_shadow.on
    /\ light_shadow.mode = "LIGHT_MODE_COLOR"
    /\ light_shadow.hue = 300 /\ light_shadow.brightness = 20
    /\ light_hist.wire.hue = 300 /\ light_hist.wire.brightness = 20

----------------------------------------------------------------------------
(* The HSV triple under interleaved setters *)

\* the triples carried by the HSV packets of q
HSVTriples(q) ==
    {<<q[i][4] + 256 * q[i][5], q[i][6], q[i][7]>> : i \in {j \in DOMAIN q : HSVShape(q[j])}}

\* a step of light_task in the "light_hsv" family that sends an HSV packet
LightSendsHSV == unit = "light_hsv" /\ LightSampleValue /\ Has(tx', HSVShape)

\* C21 as claimed: every HSV packet transmitted by the light dispatcher carries
\* a triple (hue, saturation, value) that light_shadow held at one instant,
\* also when calls of light_set_hue, light_set_saturation and light_set_value
\* fall between the dispatcher's three reads.
C21_TripleHeldTogether ==
    [][LightSendsHSV => HSVTriples(tx') \subseteq light_hist.held]_vars

\* C21 as amended: every HSV packet carries the hue, the saturation and the
\* value that light_shadow held when the iteration read each (hue, then
\* saturation, then value, the value at the moment of the send), so each is a
\* value its field held at some instant; when no setter stored to hue,
\* saturation or value between the read of the hue and the read of the value,
\* the triple is the one light_shadow holds at the send, hence one it held at
\* one instant.
C21_FieldsHeldEach ==
    [][LightSendsHSV =>
         \A t \in HSVTriples(tx') :
            /\ \E a, b \in light_hist.held : a[1] = t[1] /\ b[2] = t[2]
            /\ t[3] = light_shadow.value
            /\ ~light_hist.mixed => /\ t = LightTriple(light_shadow)
                                    /\ t \in light_hist.held]_vars

\* after calls of the three setters, an iteration whose reads no setter
\* interrupted has sent the triple (300, 75, 100)
C21_Witness ==
    /\ unit = "light_hsv"
    /\ light_pc = "tick"
    /\ ~light_hist.mixed
    /\ HSVTriples(tx) = {<<300, 75, 100>>}
    /\ <<300, 75, 100>> \in light_hist.held
    /\ light_shadow_last.hue = 300

----------------------------------------------------------------------------
(* The persisted record and the state in memory *)

\* the store holds a record of the size of the state
RecordPresent == kvs.found /\ kvs.numBytes = StateSize

\* the position of the last occurrence of step in q, 0 when there is none
LastOf(q, step) ==
    IF \E i \in DOMAIN q : q[i] = step
    THEN CHOOSE i \in DOMAIN q : q[i] = step /\ \A j \in DOMAIN q : q[j] = step => j <= i
    ELSE 0

\* C22: after AppCreate and after every read or write callback that returned
\* (no store error halted the process), the persisted record, when present
\* with the size of the state, equals the state in memory in all seven fields;
\* and a call that returns with a state field changed has persisted the state
\* after its last assignment, so that the record is then present and equal.
C22_RecordEqualsState ==
    /\ [](unit = "App" /\ pc = "running" /\ RecordPresent =>
              /\ kvs.bytes = Serialize(state)
              /\ Deserialize(kvs.bytes) = state)
    /\ [][(unit = "App" /\ pc = "running" /\ pc' = "running" /\ state' # state) =>
              /\ kvs' = Record(state')
              /\ LastOf(last'.steps, "write") >= 1
              /\ LastOf(last'.steps, "set") > LastOf(last'.steps, "write")]_vars

\* a write of the light bulb's brightness 300 has returned, over a record that
\* held another state, and the record is the new state
C22_Witness ==
    /\ unit = "App"
    /\ pc = "running"
    /\ last.op = "HandleLightBulbBrightnessWrite"
    /\ last.old = 100
    /\ state.lightBulbBrightness = 300
    /\ state.whiteColorTemperature = U32(-50)
    /\ RecordPresent
    /\ kvs.bytes = Serialize(state)
    /\ "set" \in Range(last.steps)

----------------------------------------------------------------------------
(* The range of the color-temperature-percent byte *)

\* C23: for every 32-bit unsigned color temperature T given to
\* HandleWhiteColorTemperatureWrite (MeshSetColorTemperature) or to
\* light_set_temperature, neither of which checks a range, the transmitted
\* color-temperature-percent byte lies in 0..100.
C23_PercentWithin100 ==
    /\ encOut.app # <<>> => encOut.app[4] \in 0..100
    /\ encOut.light # <<>> => encOut.light[4] \in 0..100

----------------------------------------------------------------------------
(* The brightness packet of App.c and of light.c *)

\* C24: for the same brightness the packet of MeshSetBrightness equals, byte
\* for byte, the packet of light_set_brightness_internal: 00 21 01, then the
\* brightness mod 256, then 00.  A call of HandleWhiteBrightnessWrite with a
\* new 32-bit value v sends that packet for v mod 256 and leaves the whole of
\* v in the whiteBrightness field in memory and, when the call returns, in the
\* persisted record.
C24_BrightnessPackets ==
    /\ [](unit = "encode" =>
              /\ encOut.appB # <<>> => encOut.appB = <<0, 33, 1, encIn % 256, 0>>
              /\ encOut.lightB # <<>> => encOut.lightB = <<0, 33, 1, encIn % 256, 0>>
              /\ (encOut.appB # <<>> /\ encOut.lightB # <<>>) =>
                     encOut.appB = encOut.lightB)
    /\ [][(unit = "App" /\ Calls("HandleWhiteBrightnessWrite")
              /\ last'.arg # state.whiteBrightness) =>
              /\ tx' = <<BrightnessPacket(last'.arg % 256)>>
              /\ state'.whiteBrightness = last'.arg
              /\ pc' = "running" => /\ RecordPresent'
                                    /\ Deserialize(kvs'.bytes).whiteBrightness = last'.arg]_vars

\* the two encoders have built the packet 00 21 01 2C 00 for the brightness 300
C24_Witness ==
    /\ unit = "encode"
    /\ encIn = 300
    /\ encOut.appB = <<0, 33, 1, 44, 0>>
    /\ encOut.lightB = <<0, 33, 1, 44, 0>>

====
